---------------------------- MODULE Spec2Model ----------------------------
(***************************************************************************)
(* Model of the application-submission pipeline of the JobAI Applier       *)
(* frontend: sendJobApplication in its two variants,                       *)
(*   Variant A ("template mode")    src/unnamed/part_000   lines 211-331   *)
(*   Variant B ("generative mode")  src/frontend/script.js lines 340-444   *)
(* together with the trigger controls createJobRow builds, and of the      *)
(* search form (handleFormSubmit, searchJobs, displayJobResults,           *)
(* getErrorMessage), which is the same code in both files.                 *)
(*                                                                         *)
(* A text is a sequence of fragments.  String.includes(p) is modelled as   *)
(* "p occurs as a contiguous run of fragments"; the texts of the model are *)
(* cut so that every pattern the code searches for is a run of whole       *)
(* fragments ("Resume fetch failed: " is cut "Resume" " " "fetch"          *)
(* " failed: " because the code searches for 'Resume' and for 'fetch').    *)
(* An optional value (a JSON field that may be missing, a local that may   *)
(* be undefined) is a sequence of length at most one.                      *)
(*                                                                         *)
(* Each action is one synchronous run of the handler between two           *)
(* suspension points (await); a response action takes the response the     *)
(* backend or the network produced as its input.                           *)
(***************************************************************************)
EXTENDS Integers, Sequences, FiniteSets, TLC

\* Number of listing rows (trigger controls) in the rendered results table.
NumRows == 2

Rows == 1..NumRows

VARIABLES
    variant,             \* "A" or "B": which sendJobApplication is deployed
    button,              \* button[r]: the row's control, [disabled, textContent]
    pc,                  \* pc[r]: where the row's attempt is suspended
    originalButtonText,  \* local of the attempt
    coverText,           \* local of the attempt (Variant A), optional
    emailSubject,        \* local of the attempt (Variant A), optional
    coverLetter,         \* local of the attempt (Variant B), optional
    emailResult,         \* history: the send_email response of the attempt, optional
    sending,             \* history: sending[r], the row's handler runs not yet returned
    exchange,            \* history: exchange[r], the requests sent and the values
                         \* returned in the attempt under way
    toEmails,            \* a listing's emails string, character by character
    to_emails,           \* the recipient list built from toEmails, optional
    jobsTableBody,       \* the rows of the results table, in order
    loadingElement,      \* [display] of the loading indicator
    errorElement,        \* [display, textContent] of the error banner
    searches,            \* the form submissions that passed validation, in order:
                         \* [pc, searchData, fetches]
    displayed,           \* history: the last displayJobResults call, [jobs, found]
                         \* (its argument and the table body it found), while
                         \* the table is as that call left it; optional
    latest,              \* history: the table body and the banner as the answer
                         \* to the most recently submitted search left them;
                         \* optional (none while that search is in flight)
    error,               \* the message of an error handed to the two catch
                         \* blocks' classifiers, optional (ClassifierSpec only)
    classified,          \* what the classifiers made of it: the search banner's
                         \* text and the attempt's alert text, each optional
    trace                \* history: what the attempt did and was answered, in order

vars == <<variant, button, pc, originalButtonText, coverText,
          emailSubject, coverLetter, emailResult, sending, exchange, toEmails,
          to_emails, jobsTableBody, loadingElement, errorElement, searches,
          displayed, latest, error, classified, trace>>

\* the state of the attempts on the rows of the results table
applyVars == <<variant, button, pc, originalButtonText, coverText,
               emailSubject, coverLetter, emailResult, sending, exchange, trace>>

\* the state of one recipient list being built
recipientVars == <<toEmails, to_emails>>

\* an error under classification
classifierVars == <<error, classified>>

\* the state of the search form's flow
searchVars ==
    <<jobsTableBody, loadingElement, errorElement, searches, displayed, latest>>

-----------------------------------------------------------------------------
(* Texts *)

None == <<>>
Some(v) == <<v>>

\* String.prototype.includes
RECURSIVE IncludesFrom(_, _, _)
IncludesFrom(text, pat, i) ==
    IF i + Len(pat) - 1 > Len(text) THEN FALSE
    ELSE IF \A k \in 1..Len(pat) : text[i + k - 1] = pat[k] THEN TRUE
    ELSE IncludesFrom(text, pat, i + 1)

Includes(text, pat) == IncludesFrom(text, pat, 1)

\* button.textContent set by createJobRow, and the "sending" indicator
SendLabel == "Send"
SendingLabel == "Sending..."


-----------------------------------------------------------------------------
(* What the network and the backend can answer *)

\* error.message of the TypeError a rejected fetch() carries (Chromium; WebKit)
RejectMessages == { <<"Failed to ", "fetch">>, <<"Load failed">> }

\* error.message of the SyntaxError response.json() throws on a non-JSON body
JsonSyntaxError == <<"Unexpected token < in JSON at position 0">>

\* error.message of the TypeError coverLetter.length throws on undefined
LengthOfUndefined == <<"Cannot read properties of undefined (reading 'length')">>

\* a string as the sequence of its characters, and back
RECURSIVE Flat(_)
Flat(cs) == IF cs = <<>> THEN "" ELSE Head(cs) \o Flat(Tail(cs))

\* job.emails, the listing's comma-separated recipients (JobListing.emails
\* is a string)
EmailsChars ==
    << "a", "@", "x", ".", "c", "o", "m", ",", " ",
       "b", "@", "y", ".", "c", "o", "m" >>
EmailsText == << Flat(EmailsChars) >>

\* white space as String.prototype.trim() sees it (space, tab, line feed)
Whitespace == {" ", "\t", "\n"}

\* mutant of Split: empty pieces are dropped
RECURSIVE Split_SkipsEmpty(_)
Split_SkipsEmpty(cs) ==
    IF cs = <<>> THEN << <<>> >>
    ELSE LET rest == Split_SkipsEmpty(Tail(cs)) IN
         IF Head(cs) = ","
         THEN (IF Head(rest) = <<>> THEN rest ELSE << <<>> >> \o rest)
         ELSE << <<Head(cs)>> \o Head(rest) >> \o Tail(rest)

\* toEmails.split(','): the pieces between the commas, empty ones included
RECURSIVE Split(_)
Split(cs) ==
    IF cs = <<>> THEN << <<>> >>
    ELSE LET rest == Split(Tail(cs)) IN
         IF Head(cs) = ","
         THEN << <<>> >> \o rest
         ELSE << <<Head(cs)>> \o Head(rest) >> \o Tail(rest)

RECURSIVE TrimStart(_)
TrimStart(cs) ==
    IF cs # <<>> /\ Head(cs) \in Whitespace THEN TrimStart(Tail(cs)) ELSE cs

RECURSIVE TrimEnd(_)
TrimEnd(cs) ==
    IF cs # <<>> /\ cs[Len(cs)] \in Whitespace
    THEN TrimEnd(SubSeq(cs, 1, Len(cs) - 1))
    ELSE cs

\* email.trim()
Trim(cs) == TrimEnd(TrimStart(cs))

\* toEmails.split(',').map(email => email.trim())
ToEmailsList(cs) == [i \in 1..Len(Split(cs)) |-> Trim(Split(cs)[i])]

\* status line and raw body of a non-OK response: a JSON error body that
\* carries a detail and none of the payload fields, or a plain-text body
NonOkResponses ==
    { [status |-> "404", statusText |-> <<"Not Found">>,
       errorText |-> <<"{\"detail\":\"", "No such resource", "\"}">>],
      [status |-> "500", statusText |-> <<"Internal Server Error">>,
       errorText |-> <<"Internal Server Error">>] }

\* what response.json() gives for the body of a non-OK response
ErrorBodyJson(line) == IF line.status = "404" THEN Some(None) ELSE None

\* the detail that JSON error body carries, if any
ErrorBodyDetail(line) ==
    IF line.status = "404" THEN Some(<<"No such resource">>) ELSE None

OkLine == [status |-> "200", statusText |-> <<"OK">>, errorText |-> <<>>]

\* the listings of the rows, as createJobRow's closure holds them
Jobs ==
    [r \in Rows |-> [title |-> <<"Title " \o ToString(r)>>,
                     company |-> <<"Company " \o ToString(r)>>]]

\* the texts the backend returns in the payload field of a successful step:
\* the two documents, and what it generates for a listing
ResumeText == <<"text of resume.pdf">>
CoverTemplateText == <<"text of cover_template.docx">>
GeneratedSubject(job) == <<"Subject for ">> \o job.title
GeneratedCoverLetter(job) == <<"Cover letter for ">> \o job.title \o <<", ">> \o job.company

\* A response to get_file_text, generate_subject or generate_cover:
\*   net      "reject" (fetch() rejected) or "response"
\*   ok       response.ok
\*   json     None when the body is not JSON, else Some(field) where field is
\*            the optional value of the payload's text / subject / cover_letter
StepResponses(FieldText) ==
    { [net |-> "reject", rejectMsg |-> m, ok |-> FALSE, line |-> OkLine, json |-> None]
        : m \in RejectMessages }
    \cup { [net |-> "response", rejectMsg |-> <<>>, ok |-> FALSE, line |-> l,
            json |-> ErrorBodyJson(l)] : l \in NonOkResponses }
    \cup { [net |-> "response", rejectMsg |-> <<>>, ok |-> TRUE, line |-> OkLine, json |-> j]
        : j \in {None, Some(None), Some(Some(FieldText))} }

\* server-provided detail texts of a failed send_email
AuthDetail == <<"SMTP ", "authentication failed", ": username and password not accepted">>
BadCredentialsDetail == <<"535 ", "BadCredentials">>
FileDetail == <<"Resume", " or ", "Cover", " letter", " file not found in uploads/">>
PlainDetail == <<"Recipient address rejected">>
Details == {AuthDetail, BadCredentialsDetail, FileDetail, PlainDetail}

MessageText == <<"Daily sending quota exceeded">>

\* The JSON payload of a send_email response: success and demo_mode are
\* "true", "false" or "missing"; detail and message are optional texts.
\* A successful payload carries no detail; a failed one is not a demo.
EmailPayloads ==
    { [success |-> "true", demo_mode |-> d, detail |-> None, message |-> None]
        : d \in {"true", "false", "missing"} }
    \cup { [success |-> "false", demo_mode |-> "false", detail |-> dt, message |-> None]
        : dt \in {None} \cup {Some(x) : x \in Details} }
    \cup { [success |-> "missing", demo_mode |-> "false", detail |-> dt, message |-> None]
        : dt \in {None, Some(PlainDetail)} }
    \cup { [success |-> "false", demo_mode |-> "false", detail |-> None,
            message |-> Some(MessageText)] }

\* A response to send_email: json is None when the body is not JSON
EmailResponses ==
    { [net |-> "reject", rejectMsg |-> m, ok |-> FALSE, json |-> None]
        : m \in RejectMessages }
    \cup { [net |-> "response", rejectMsg |-> <<>>, ok |-> o, json |-> j]
        : o \in BOOLEAN, j \in {None} \cup {Some(p) : p \in EmailPayloads} }

-----------------------------------------------------------------------------
(* The handler's pure parts *)

\* JavaScript truthiness of an optional text ('' and undefined are falsy)
Truthy(opt) == opt # None /\ opt[1] # <<>>

\* emailData.detail || emailData.message || 'Unknown error occurred'
ErrorDetail(emailData) ==
    IF Truthy(emailData.detail) THEN emailData.detail[1]
    ELSE IF Truthy(emailData.message) THEN emailData.message[1]
    ELSE <<"Unknown error occurred">>

\* mutants of EmailSucceeded: the transport status is not tested; a demo
\* response is not a success
EmailSucceeded_FlagOnly(ok, emailData) == emailData.success = "true"
EmailSucceeded_NotInDemo(ok, emailData) ==
    ok /\ emailData.success = "true" /\ emailData.demo_mode # "true"

\* emailResponse.ok && emailData.success
EmailSucceeded(ok, emailData) == ok /\ emailData.success = "true"

\* mutant of StatusText: the two wordings are swapped
StatusText_Swapped(emailData) == IF emailData.demo_mode = "true" THEN "sent" ELSE "prepared"

\* const statusText = emailData.demo_mode ? 'prepared' : 'sent'
StatusText(emailData) == IF emailData.demo_mode = "true" THEN "prepared" ELSE "sent"

\* const modeText = emailData.demo_mode ? ' (Demo Mode)' : ''
ModeText(emailData) == IF emailData.demo_mode = "true" THEN <<" (Demo Mode)">> ELSE <<>>

DemoNote == <<"Note: Configure Gmail credentials in .env to enable real email sending.">>

\* the alert of the success branch (the echoed subject and attachment are left out)
SuccessAlert(emailData) ==
    <<"Application ", StatusText(emailData), " successfully">> \o ModeText(emailData)
        \o <<"! To: ">> \o EmailsText
        \o (IF emailData.demo_mode = "true" THEN DemoNote ELSE <<>>)

\* mutant of IsAuthFailure: the indicator is matched with other capitals
IsAuthFailure_OtherCase(v, errorDetail) ==
    Includes(errorDetail, <<"Authentication Failed">>)

\* the guard of the authentication branch
IsAuthFailure(v, errorDetail) ==
    IF v = "A" THEN Includes(errorDetail, <<"authentication failed">>)
    ELSE Includes(errorDetail, <<"authentication failed">>)
         \/ Includes(errorDetail, <<"BadCredentials">>)

RemediationA == <<"Please check your Gmail credentials in .env file.">>
RemediationB == <<"This means the Gmail credentials in .env need to be updated.",
                  "Required Steps: 1. Enable 2FA on your Gmail account",
                  "2. Generate App Password: https://myaccount.google.com/apppasswords",
                  "3. Update GMAIL_APP_PASSWORD in .env file">>

Remediation(v) == IF v = "A" THEN RemediationA ELSE RemediationB

AuthAlert(v, errorDetail) ==
    <<"Gmail Authentication Failed!">> \o errorDetail \o Remediation(v)

GenericAlert(errorDetail) == <<"Email", " sending failed: ">> \o errorDetail

\* the alert of the else branch
DispatchAlert(v, errorDetail) ==
    IF IsAuthFailure(v, errorDetail) THEN AuthAlert(v, errorDetail)
    ELSE GenericAlert(errorDetail)

\* the messages of the errors the handler throws itself
ResumeFetchError(line) == <<"Resume", " ", "fetch", " failed: ">> \o line.statusText
CoverFetchError(line) == <<"Cover", " letter", " ", "fetch", " failed: ">> \o line.statusText
SubjectError(line) == <<"Subject", " generation failed: ">> \o line.statusText
CoverLetterError(line) ==
    <<"Cover", " letter", " generation failed (", line.status, "): ">> \o line.errorText
EmailError(errorDetail) == <<"Email", " sending failed: ">> \o errorDetail

FailurePrefix == <<"Failed to send job application. ">>
CouldNotFetchResume == <<"Could not fetch resume.">>
CouldNotFetchCover == <<"Could not fetch cover letter.">>
CouldNotGenerateSubject == <<"Could not generate email subject.">>
CouldNotGenerateCover == <<"Could not generate cover letter.">>
CouldNotSendEmail == <<"Could not send email.">>
NetworkErrorText == <<"Network error. Please check if the backend server is running.">>

\* mutant of CatchMessageA: the 'fetch' rule is tested first
CatchMessageA_FetchFirst(message) ==
    FailurePrefix \o
    ( IF Includes(message, <<"fetch">>) THEN NetworkErrorText
      ELSE IF Includes(message, <<"Resume">>) THEN CouldNotFetchResume
      ELSE IF Includes(message, <<"Cover">>) THEN CouldNotFetchCover
      ELSE IF Includes(message, <<"Subject">>) THEN CouldNotGenerateSubject
      ELSE IF Includes(message, <<"Email">>) THEN CouldNotSendEmail
      ELSE message )

\* the catch block's message, Variant A
CatchMessageA(message) ==
    FailurePrefix \o
    ( IF Includes(message, <<"Resume">>) THEN CouldNotFetchResume
      ELSE IF Includes(message, <<"Cover">>) THEN CouldNotFetchCover
      ELSE IF Includes(message, <<"Subject">>) THEN CouldNotGenerateSubject
      ELSE IF Includes(message, <<"Email">>) THEN CouldNotSendEmail
      ELSE IF Includes(message, <<"fetch">>) THEN NetworkErrorText
      ELSE message )

\* the catch block's message, Variant B
CatchMessageB(message) ==
    FailurePrefix \o
    ( IF Includes(message, <<"Cover", " letter">>) THEN CouldNotGenerateCover
      ELSE IF Includes(message, <<"Email">>) THEN CouldNotSendEmail
      ELSE IF Includes(message, <<"fetch">>) THEN NetworkErrorText
      ELSE message )

CatchMessage(v, message) ==
    IF v = "A" THEN CatchMessageA(message) ELSE CatchMessageB(message)

-----------------------------------------------------------------------------
(* State *)

\* One entry of an attempt's trace:
\*   "disable"        the control is disabled; text = its label just before
\*   "enable"         the control's disabled flag is cleared
\*   "call"           fetch() is called; what = the endpoint
\*   "response"       fetch() settled; what = the endpoint, text = ResponseKind
\*   "alert"          alert() is called; what = the branch, text = its text
\*   "console.error"  the catch block's diagnostic entry; text = error.message
Ev(ev, what, text) == [ev |-> ev, what |-> what, text |-> text]

GetResume == "get_file_text?filename=resume.pdf"
GetCover == "get_file_text?filename=cover_template.docx"
GenerateSubject == "generate_subject"
GenerateCover == "generate_cover"
SendEmail == "send_email"

\* How fetch() settled: rejected, or resolved with a non-OK status, or with
\* an OK status and a body that is or is not JSON.
ResponseKind(resp) ==
    IF resp.net = "reject" THEN "rejected"
    ELSE IF ~resp.ok THEN "non-OK"
    ELSE IF resp.json = None THEN "OK-unparsable"
    ELSE "OK"

-----------------------------------------------------------------------------
(* The search form: handleFormSubmit, searchJobs, displayJobResults *)

MaxSearches == 2
MaxJobs == 2

\* the listings a search can return, and the sequences of them
JobIds == 1..MaxJobs
JobLists == UNION { [1..n -> JobIds] : n \in 0..MaxJobs }

\* what the user typed into jobTitle and location (ctc is left empty)
FormInputs ==
    [title : {<<>>, <<" ">>, <<"d", "e", "v">>},
     location : {<<>>, <<"N", "Y", " ">>}]

\* getFormData(): the trimmed values; an empty ctc becomes undefined
getFormData(form) ==
    [title |-> Trim(form.title), location |-> Trim(form.location), ctc |-> None]

\* mutant of validateFormData: the location is not required
validateFormData_TitleOnly(formData) == formData.title # <<>>

\* validateFormData(): formData.title && formData.location
validateFormData(formData) == formData.title # <<>> /\ formData.location # <<>>

RequiredFieldsMessage ==
    <<"Please fill in all required fields (Job Title and Location)">>

\* what response.json() of a search response gives: an array of listings,
\* null, or another object (with or without a detail)
JobsArray(list) == [kind |-> "array", list |-> list, detail |-> None]
JsonNull == [kind |-> "null", list |-> <<>>, detail |-> None]
JsonObject(detail) == [kind |-> "object", list |-> <<>>, detail |-> detail]

SearchDetails ==
    { <<"Gemini ", "API key", " is not configured">>, <<"title: field required">> }

SearchStatusLines ==
    { [status |-> "422", statusText |-> <<"Unprocessable", " Entity">>],
      [status |-> "500", statusText |-> <<"Internal Server Error">>],
      [status |-> "404", statusText |-> <<"Not Found">>] }

\* A response to POST search_jobs (json: None when the body is not JSON).
SearchResponses ==
    { [net |-> "reject", rejectMsg |-> m, ok |-> FALSE, line |-> OkLine, json |-> None]
        : m \in RejectMessages }
    \cup { [net |-> "response", rejectMsg |-> <<>>, ok |-> FALSE,
            line |-> [status |-> l.status, statusText |-> l.statusText, errorText |-> <<>>],
            json |-> j]
        : l \in SearchStatusLines,
          j \in {None, Some(JsonNull), Some(JsonObject(None))}
                \cup {Some(JsonObject(Some(d))) : d \in SearchDetails} }
    \cup { [net |-> "response", rejectMsg |-> <<>>, ok |-> TRUE, line |-> OkLine, json |-> j]
        : j \in {None, Some(JsonNull), Some(JsonObject(None))}
                \cup {Some(JobsArray(list)) : list \in JobLists} }

\* `HTTP ${response.status}: ${response.statusText}`
HttpErrorMessage(line) == <<"HTTP ", line.status, ": ">> \o line.statusText

ForEachTypeError == <<"jobs.forEach is not a function">>

\* The message of the error searchJobs throws for a response, if any.
SearchError(resp) ==
    IF resp.net = "reject" THEN Some(resp.rejectMsg)
    ELSE IF ~resp.ok
    THEN IF resp.json # None /\ resp.json[1].detail # None
         THEN Some(resp.json[1].detail[1])
         ELSE Some(HttpErrorMessage(resp.line))
    ELSE IF resp.json = None THEN Some(JsonSyntaxError)
    ELSE None

UnexpectedErrorMessage == <<"An unexpected error occurred. Please try again.">>
CannotConnectMessage ==
    <<"Cannot connect to the backend server. Make sure the server is running on ",
      "http://127.0.0.1:8000">>
TimedOutMessage ==
    <<"Request timed out. The AI is taking longer than expected to generate jobs.">>
CheckInputMessage ==
    <<"Please check your input data. Job title and location are required fields.">>
ConfigurationMessage ==
    <<"Backend configuration issue. Please check if the Gemini ", "API key",
      " is properly configured.">>

\* mutant of getErrorMessage: the 500 / API key rule is tested before the
\* 422 rule
getErrorMessage_ConfigurationFirst(errorMessage) ==
    LET message == IF errorMessage = <<>> THEN UnexpectedErrorMessage ELSE errorMessage IN
    IF \/ Includes(message, <<"Failed to ", "fetch">>)
       \/ Includes(message, <<"NetworkError">>)
       \/ Includes(message, <<"CORS">>)
    THEN CannotConnectMessage
    ELSE IF Includes(message, <<"timeout">>) THEN TimedOutMessage
    ELSE IF Includes(message, <<"500">>) \/ Includes(message, <<"API key">>)
    THEN ConfigurationMessage
    ELSE IF Includes(message, <<"422">>) \/ Includes(message, <<"Unprocessable">>)
    THEN CheckInputMessage
    ELSE message

\* getErrorMessage(error)
getErrorMessage(errorMessage) ==
    LET message == IF errorMessage = <<>> THEN UnexpectedErrorMessage ELSE errorMessage IN
    IF \/ Includes(message, <<"Failed to ", "fetch">>)
       \/ Includes(message, <<"NetworkError">>)
       \/ Includes(message, <<"CORS">>)
    THEN CannotConnectMessage
    ELSE IF Includes(message, <<"timeout">>) THEN TimedOutMessage
    ELSE IF Includes(message, <<"422">>) \/ Includes(message, <<"Unprocessable">>)
    THEN CheckInputMessage
    ELSE IF Includes(message, <<"500">>) \/ Includes(message, <<"API key">>)
    THEN ConfigurationMessage
    ELSE message

\* showError(message)
showError(message) == [display |-> "block", textContent |-> message]

\* showNoResults(): the table body becomes the one explanatory row
PlaceholderRow == [kind |-> "placeholder", job |-> 0, alternate |-> FALSE]
showNoResults == << PlaceholderRow >>

\* createJobRow(job, index)
createJobRow(job, index) == [kind |-> "listing", job |-> job, alternate |-> index % 2 = 1]

\* mutant of displayJobResults: the rows are added to those already there
displayJobResults_Appends(tbody, jobs) ==
    IF jobs.kind = "null" \/ Len(jobs.list) = 0
    THEN tbody \o showNoResults
    ELSE tbody \o [i \in 1..Len(jobs.list) |-> createJobRow(jobs.list[i], i - 1)]

\* displayJobResults(jobs), for jobs null or an array: the table body it
\* leaves, given the body it finds
displayJobResults(tbody, jobs) ==
    LET cleared == <<>> IN
    IF jobs.kind = "null" \/ Len(jobs.list) = 0
    THEN showNoResults
    ELSE cleared \o [i \in 1..Len(jobs.list) |-> createJobRow(jobs.list[i], i - 1)]

\* mutant of Settled: a failed search is sent again, once
Settled_RetryOnce(search, failed) ==
    IF failed /\ search.fetches < 2
    THEN [search EXCEPT !.fetches = @ + 1]
    ELSE [search EXCEPT !.pc = "done"]

\* handleFormSubmit returns after its finally block, whatever happened
Settled(search, failed) == [search EXCEPT !.pc = "done"]

\* The user submits the form as filled in: handleFormSubmit up to its await
\* (or to its return, when validation fails).
handleFormSubmit(form) ==
    /\ LET formData == getFormData(form) IN
       IF ~validateFormData(formData)
       THEN /\ errorElement' = showError(RequiredFieldsMessage)
            /\ UNCHANGED <<jobsTableBody, loadingElement, searches, displayed>>
       ELSE /\ Len(searches) <= MaxSearches
            /\ jobsTableBody' = <<>>
            /\ errorElement' = [errorElement EXCEPT !.display = "none"]
            /\ loadingElement' = [display |-> "block"]
            /\ searches' = Append(searches,
                  [pc |-> "await_search", searchData |-> formData, fetches |-> 1])
            /\ displayed' = None
    /\ UNCHANGED <<applyVars, recipientVars, classifierVars>>

\* The search_jobs call of submission i is answered with resp: the rest of
\* searchJobs and of handleFormSubmit.
SearchResponse(i, resp) ==
    /\ searches[i].pc = "await_search"
    /\ LET err == SearchError(resp) IN
       /\ IF err # None
          THEN /\ errorElement' = showError(getErrorMessage(err[1]))
               /\ UNCHANGED <<jobsTableBody, displayed>>
          ELSE IF resp.json[1].kind = "object"
          THEN \* cleared, then jobs.forEach throws
               /\ jobsTableBody' = <<>>
               /\ displayed' = Some([jobs |-> resp.json[1], found |-> jobsTableBody])
               /\ errorElement' = showError(getErrorMessage(ForEachTypeError))
          ELSE /\ jobsTableBody' = displayJobResults(jobsTableBody, resp.json[1])
               /\ displayed' = Some([jobs |-> resp.json[1], found |-> jobsTableBody])
               /\ UNCHANGED errorElement
       /\ searches' = [searches EXCEPT ![i] =
                         Settled(@, err # None \/ resp.json[1].kind = "object")]
    /\ loadingElement' = [display |-> "none"]
    /\ UNCHANGED <<applyVars, recipientVars, classifierVars>>

SearchNext ==
    \/ /\ \E form \in FormInputs : handleFormSubmit(form)
       /\ UNCHANGED latest
    \/ /\ \E i \in 1..Len(searches) :
            /\ searches[i].pc = "await_search"
            /\ \E resp \in SearchResponses : SearchResponse(i, resp)
       /\ UNCHANGED latest

-----------------------------------------------------------------------------
(* The page after a search *)

\* The results table as displayJobResults leaves it: one row per listing, each
\* with the control createJobRow builds (enabled, labelled "Send").
ApplyInit ==
    /\ variant \in {"A", "B"}
    /\ button = [r \in Rows |-> [disabled |-> FALSE, textContent |-> SendLabel]]
    /\ pc = [r \in Rows |-> "idle"]
    /\ originalButtonText = [r \in Rows |-> SendLabel]
    /\ coverText = [r \in Rows |-> None]
    /\ emailSubject = [r \in Rows |-> None]
    /\ coverLetter = [r \in Rows |-> None]
    /\ emailResult = [r \in Rows |-> None]
    /\ sending = [r \in Rows |-> 0]
    /\ exchange = [r \in Rows |-> <<>>]
    /\ trace = [r \in Rows |-> <<>>]

\* The search flow after a first search, which returned one listing per row.
SearchInit ==
    /\ jobsTableBody = displayJobResults(<<>>, JobsArray([r \in Rows |-> r]))
    /\ loadingElement = [display |-> "none"]
    /\ errorElement = [display |-> "none", textContent |-> <<>>]
    /\ searches = << [pc |-> "done",
                      searchData |-> getFormData([title |-> <<"d", "e", "v">>,
                                                  location |-> <<"N", "Y", " ">>]),
                      fetches |-> 1] >>
    /\ displayed = Some([jobs |-> JobsArray([r \in Rows |-> r]), found |-> <<>>])
    /\ latest = Some([body |-> jobsTableBody, error |-> errorElement])

\* no error is under classification
NoError == error = None /\ classified = [banner |-> None, alert |-> None]

\* The page with the results table rendered; every listing's emails string
\* is EmailsChars.
Init ==
    /\ ApplyInit
    /\ toEmails = EmailsChars
    /\ to_emails = None
    /\ SearchInit
    /\ NoError

-----------------------------------------------------------------------------
(* sendJobApplication, one run between two awaits per action *)

\* A request body: the fields JSON.stringify writes, each optional (a field
\* whose value is undefined is left out).
NoFields ==
    [job_title |-> None, company |-> None, cover_letter_content |-> None,
     job_description |-> None, resume_text |-> None, to_emails |-> None,
     subject |-> None, body |-> None, resume_file |-> None]

Request(call, fields) ==
    [kind |-> "request", call |-> call, fields |-> fields, value |-> None]

\* the value read from the payload field of a step's response
Returned(call, value) ==
    [kind |-> "returned", call |-> call, fields |-> NoFields, value |-> value]

ResumeTextB ==
    <<"Experienced professional with strong skills in project management, ...">>
ResumeFileA == <<"uploads/resume.pdf">>
ResumeFileB == <<"G:\\My Drive\\...\\Product Management\\Resume.pdf">>

\* body of POST generate_subject (Variant A)
SubjectFields(job, cover) ==
    [NoFields EXCEPT !.job_title = Some(job.title),
                     !.company = Some(job.company),
                     !.cover_letter_content = cover,
                     !.job_description =
                         Some(<<"Looking for ">> \o job.title
                              \o <<" position at ">> \o job.company)]

\* body of POST generate_cover (Variant B)
CoverFields(job) ==
    [NoFields EXCEPT !.job_title = Some(job.title),
                     !.company = Some(job.company),
                     !.resume_text = Some(ResumeTextB)]

\* mutant of EmailFieldsA: subject and body change places
EmailFieldsA_Swapped(emails, subject, cover) ==
    [NoFields EXCEPT !.to_emails = Some(ToEmailsList(emails)),
                     !.subject = cover,
                     !.body = subject,
                     !.resume_file = Some(ResumeFileA)]

\* body of POST send_email, Variant A
EmailFieldsA(emails, subject, cover) ==
    [NoFields EXCEPT !.to_emails = Some(ToEmailsList(emails)),
                     !.subject = subject,
                     !.body = cover,
                     !.resume_file = Some(ResumeFileA)]

\* mutant of SubjectTemplate: the company comes first
SubjectTemplate_CompanyFirst(job) ==
    <<"Job Application: ">> \o job.company \o <<" at ">> \o job.title

\* `Job Application: ${jobTitle} at ${company}`
SubjectTemplate(job) ==
    <<"Job Application: ">> \o job.title \o <<" at ">> \o job.company

\* body of POST send_email, Variant B
EmailFieldsB(emails, job, letter) ==
    [NoFields EXCEPT !.to_emails = Some(ToEmailsList(emails)),
                     !.subject = Some(SubjectTemplate(job)),
                     !.body = letter,
                     !.resume_file = Some(ResumeFileB)]

\* the first request of the sequence
FirstRequest(v, job) ==
    IF v = "A" THEN Request(GetResume, NoFields)
    ELSE Request(GenerateCover, CoverFields(job))

\* mutant of DisableButton: the control stays enabled during the attempt
DisableButton_StaysEnabled(b) == [disabled |-> FALSE, textContent |-> SendingLabel]

\* if (button) { originalButtonText = ...; button.disabled = true; ... }
DisableButton(b) == [disabled |-> TRUE, textContent |-> SendingLabel]

\* mutants of FinallyButton: the flag is not cleared; the label is not restored
FinallyButton_StaysDisabled(b, original) == [disabled |-> TRUE, textContent |-> original]
FinallyButton_KeepsLabel(b, original) == [disabled |-> FALSE, textContent |-> b.textContent]

\* mutant of FinallyButton: the finally block does nothing
FinallyButton_Untouched(b, original) == b

\* finally { if (button) { button.disabled = false; button.textContent = ... } }
FinallyButton(b, original) == [disabled |-> FALSE, textContent |-> original]

\* mutant of CatchEvents: the error is logged and not shown
CatchEvents_LogOnly(v, message) == << Ev("console.error", "catch", message) >>

\* catch (error) { console.error(...); ...; alert(`${errorMessage}`) }
CatchEvents(v, message) ==
    << Ev("console.error", "catch", message),
       Ev("alert", "catch", CatchMessage(v, message)) >>

\* the first step of the sequence
FirstCall(v) == IF v = "A" THEN GetResume ELSE GenerateCover

AwaitOf(call) ==
    CASE call = GetResume -> "await_resume"
      [] call = GetCover -> "await_cover"
      [] call = GenerateSubject -> "await_subject"
      [] call = GenerateCover -> "await_generate_cover"
      [] call = SendEmail -> "await_send_email"

\* mutant of Proceed: the next fetch() is issued without awaiting the answer
Proceed_NotAwaited(r, answer, call) ==
    /\ trace' = [trace EXCEPT ![r] = @ \o <<Ev("call", call, <<>>), answer>>]
    /\ pc' = [pc EXCEPT ![r] = AwaitOf(call)]
    /\ UNCHANGED <<button, originalButtonText, sending, recipientVars, searchVars, classifierVars>>

\* The step's response (answer) was accepted: the attempt runs on to its
\* next fetch() and suspends there.
Proceed(r, answer, call) ==
    /\ trace' = [trace EXCEPT ![r] = @ \o <<answer, Ev("call", call, <<>>)>>]
    /\ pc' = [pc EXCEPT ![r] = AwaitOf(call)]
    /\ UNCHANGED <<button, originalButtonText, sending, recipientVars, searchVars, classifierVars>>

\* mutant of Finish: the finally block re-enables every row's control
Finish_EnablesAll(r, evs) ==
    /\ trace' = [trace EXCEPT ![r] = @ \o evs \o << Ev("enable", "finally", <<>>) >>]
    /\ button' = [q \in Rows |-> FinallyButton(button[q], originalButtonText[r])]
    /\ pc' = [pc EXCEPT ![r] = "done"]
    /\ originalButtonText' = [originalButtonText EXCEPT ![r] = SendLabel]
    /\ coverText' = [coverText EXCEPT ![r] = None]
    /\ emailSubject' = [emailSubject EXCEPT ![r] = None]
    /\ coverLetter' = [coverLetter EXCEPT ![r] = None]
    /\ sending' = [sending EXCEPT ![r] = @ - 1]
    /\ exchange' = [exchange EXCEPT ![r] = <<>>]
    /\ UNCHANGED <<recipientVars, searchVars, classifierVars>>

\* The attempt leaves the try block (events evs happened on the way), runs
\* the finally block and returns; its locals are gone.
Finish(r, evs) ==
    /\ trace' = [trace EXCEPT ![r] = @ \o evs \o << Ev("enable", "finally", <<>>) >>]
    /\ button' = [button EXCEPT ![r] = FinallyButton(@, originalButtonText[r])]
    /\ pc' = [pc EXCEPT ![r] = "done"]
    /\ originalButtonText' = [originalButtonText EXCEPT ![r] = SendLabel]
    /\ coverText' = [coverText EXCEPT ![r] = None]
    /\ emailSubject' = [emailSubject EXCEPT ![r] = None]
    /\ coverLetter' = [coverLetter EXCEPT ![r] = None]
    /\ sending' = [sending EXCEPT ![r] = @ - 1]
    /\ exchange' = [exchange EXCEPT ![r] = <<>>]
    /\ UNCHANGED <<recipientVars, searchVars, classifierVars>>

\* After the step's response (answer), an error with this message is thrown
\* inside the try block.
Throw(r, answer, message) == Finish(r, <<answer>> \o CatchEvents(variant, message))

\* mutant of StepError: a non-OK status is not checked
StepError_IgnoresStatus(resp, notOkError) ==
    IF resp.net = "reject" THEN Some(resp.rejectMsg)
    ELSE IF resp.json = None THEN Some(JsonSyntaxError)
    ELSE None

\* The error a step's response makes the handler throw, if any:
\* fetch() rejected, !response.ok, or response.json() failed.
StepError(resp, notOkError) ==
    IF resp.net = "reject" THEN Some(resp.rejectMsg)
    ELSE IF ~resp.ok THEN Some(notOkError)
    ELSE IF resp.json = None THEN Some(JsonSyntaxError)
    ELSE None

\* The user clicks the row's control (a disabled button receives no click):
\* the handler starts, disables the control and issues the first call.
sendJobApplication(r) ==
    /\ ~button[r].disabled
    /\ originalButtonText' = [originalButtonText EXCEPT ![r] = button[r].textContent]
    /\ button' = [button EXCEPT ![r] = DisableButton(@)]
    /\ trace' = [trace EXCEPT ![r] =
                    << Ev("disable", "start", <<button[r].textContent>>),
                       Ev("call", FirstCall(variant), <<>>) >>]
    /\ pc' = [pc EXCEPT ![r] = AwaitOf(FirstCall(variant))]
    /\ coverText' = [coverText EXCEPT ![r] = None]
    /\ emailSubject' = [emailSubject EXCEPT ![r] = None]
    /\ coverLetter' = [coverLetter EXCEPT ![r] = None]
    /\ emailResult' = [emailResult EXCEPT ![r] = None]
    /\ sending' = [sending EXCEPT ![r] = @ + 1]
    /\ exchange' = [exchange EXCEPT ![r] = << FirstRequest(variant, Jobs[r]) >>]
    /\ UNCHANGED <<variant, recipientVars, searchVars, classifierVars>>

\* Variant A: the resume fetch answers.
ResumeResponse(r, resp) ==
    /\ pc[r] = "await_resume"
    /\ LET err == StepError(resp, ResumeFetchError(resp.line))
           answer == Ev("response", GetResume, <<ResponseKind(resp)>>) IN
       IF err # None
       THEN /\ Throw(r, answer, err[1])
       ELSE /\ Proceed(r, answer, GetCover)
            /\ exchange' = [exchange EXCEPT ![r] = @ \o << Request(GetCover, NoFields) >>]
            /\ UNCHANGED <<coverText, emailSubject, coverLetter>>
    /\ UNCHANGED <<variant, emailResult>>

\* Variant A: the cover-template fetch answers.
CoverResponse(r, resp) ==
    /\ pc[r] = "await_cover"
    /\ LET err == StepError(resp, CoverFetchError(resp.line))
           answer == Ev("response", GetCover, <<ResponseKind(resp)>>) IN
       IF err # None
       THEN /\ Throw(r, answer, err[1])
       ELSE /\ Proceed(r, answer, GenerateSubject)
            /\ coverText' = [coverText EXCEPT ![r] = resp.json[1]]
            /\ exchange' = [exchange EXCEPT ![r] = @ \o
                  << Returned(GetCover, resp.json[1]),
                     Request(GenerateSubject, SubjectFields(Jobs[r], coverText'[r])) >>]
            /\ UNCHANGED <<emailSubject, coverLetter>>
    /\ UNCHANGED <<variant, emailResult>>

\* Variant A: subject generation answers.
SubjectResponse(r, resp) ==
    /\ pc[r] = "await_subject"
    /\ LET err == StepError(resp, SubjectError(resp.line))
           answer == Ev("response", GenerateSubject, <<ResponseKind(resp)>>) IN
       IF err # None
       THEN /\ Throw(r, answer, err[1])
       ELSE /\ Proceed(r, answer, SendEmail)
            /\ emailSubject' = [emailSubject EXCEPT ![r] = resp.json[1]]
            /\ exchange' = [exchange EXCEPT ![r] = @ \o
                  << Returned(GenerateSubject, resp.json[1]),
                     Request(SendEmail,
                             EmailFieldsA(toEmails, emailSubject'[r], coverText[r])) >>]
            /\ UNCHANGED <<coverText, coverLetter>>
    /\ UNCHANGED <<variant, emailResult>>

\* Variant B: cover-letter generation answers.
GenerateCoverResponse(r, resp) ==
    /\ pc[r] = "await_generate_cover"
    /\ LET err == StepError(resp, CoverLetterError(resp.line))
           answer == Ev("response", GenerateCover, <<ResponseKind(resp)>>) IN
       IF err # None
       THEN /\ Throw(r, answer, err[1])
       ELSE IF resp.json[1] = None
       THEN \* coverLetter.length on undefined
            /\ Throw(r, answer, LengthOfUndefined)
       ELSE /\ Proceed(r, answer, SendEmail)
            /\ coverLetter' = [coverLetter EXCEPT ![r] = resp.json[1]]
            /\ exchange' = [exchange EXCEPT ![r] = @ \o
                  << Returned(GenerateCover, resp.json[1]),
                     Request(SendEmail,
                             EmailFieldsB(toEmails, Jobs[r], coverLetter'[r])) >>]
            /\ UNCHANGED <<coverText, emailSubject>>
    /\ UNCHANGED <<variant, emailResult>>

\* What the handler does with a parsed send_email response: the alert of
\* the success branch, or that of the else branch followed by the catch
\* block's, which handles the error the else branch throws.
EmailEvents(v, ok, emailData) ==
    IF EmailSucceeded(ok, emailData)
    THEN << Ev("alert", "success", SuccessAlert(emailData)) >>
    ELSE << Ev("alert", "dispatch", DispatchAlert(v, ErrorDetail(emailData))) >>
         \o CatchEvents(v, EmailError(ErrorDetail(emailData)))

\* send_email answers.
SendEmailResponse(r, resp) ==
    /\ pc[r] = "await_send_email"
    /\ LET answer == Ev("response", SendEmail, <<ResponseKind(resp)>>) IN
       /\ emailResult' = [emailResult EXCEPT ![r] = Some(resp)]
       /\ IF resp.net = "reject" THEN Throw(r, answer, resp.rejectMsg)
          ELSE IF resp.json = None THEN Throw(r, answer, JsonSyntaxError)
          ELSE Finish(r, <<answer>> \o EmailEvents(variant, resp.ok, resp.json[1]))
    /\ UNCHANGED variant

\* A click on a row's control, or the answer to the call a row's attempt
\* awaits (the answers are enumerated only for that call).
Next ==
    \E r \in Rows :
        \/ sendJobApplication(r)
        \/ /\ pc[r] = "await_resume"
           /\ \E resp \in StepResponses(ResumeText) : ResumeResponse(r, resp)
        \/ /\ pc[r] = "await_cover"
           /\ \E resp \in StepResponses(CoverTemplateText) : CoverResponse(r, resp)
        \/ /\ pc[r] = "await_subject"
           /\ \E resp \in StepResponses(GeneratedSubject(Jobs[r])) :
                 SubjectResponse(r, resp)
        \/ /\ pc[r] = "await_generate_cover"
           /\ \E resp \in StepResponses(GeneratedCoverLetter(Jobs[r])) :
                 GenerateCoverResponse(r, resp)
        \/ /\ pc[r] = "await_send_email"
           /\ \E resp \in EmailResponses : SendEmailResponse(r, resp)

Spec == Init /\ [][Next]_vars

\* the handler of the response the row's attempt is waiting for
Respond(r) ==
    \/ /\ pc[r] = "await_resume"
       /\ \E resp \in StepResponses(ResumeText) : ResumeResponse(r, resp)
    \/ /\ pc[r] = "await_cover"
       /\ \E resp \in StepResponses(CoverTemplateText) : CoverResponse(r, resp)
    \/ /\ pc[r] = "await_subject"
       /\ \E resp \in StepResponses(GeneratedSubject(Jobs[r])) : SubjectResponse(r, resp)
    \/ /\ pc[r] = "await_generate_cover"
       /\ \E resp \in StepResponses(GeneratedCoverLetter(Jobs[r])) :
             GenerateCoverResponse(r, resp)
    \/ /\ pc[r] = "await_send_email"
       /\ \E resp \in EmailResponses : SendEmailResponse(r, resp)

\* Every issued call eventually resolves or rejects, and the event loop then
\* resumes the suspended handler. Clicks are the user's and are not forced.
FairSpec == Spec /\ \A r \in Rows : WF_vars(Respond(r))

-----------------------------------------------------------------------------
(* The recipient list of send_email, for every emails string *)

MaxLen == 4

Alphabet == {"a", "@", ",", " ", "\t"}

\* the strings of at most MaxLen characters
Strings == UNION { [1..n -> Alphabet] : n \in 0..MaxLen }

\* A listing whose emails string is EmailsChars or any short string; no
\* attempt runs.
RecipientsInit ==
    /\ ApplyInit
    /\ toEmails \in Strings \cup {EmailsChars}
    /\ to_emails = None
    /\ SearchInit
    /\ NoError

\* to_emails: toEmails.split(',').map(email => email.trim())
BuildRecipients ==
    /\ to_emails = None
    /\ to_emails' = Some(ToEmailsList(toEmails))
    /\ UNCHANGED <<applyVars, toEmails, searchVars, classifierVars>>

RecipientsNext == BuildRecipients

RecipientsSpec == RecipientsInit /\ [][RecipientsNext]_vars

-----------------------------------------------------------------------------
(* The two classifiers of error messages, for every message *)

MaxFragments == 2

\* the texts the classifiers search for, cut as the texts of the model are,
\* and a text none of them occurs in
Fragments ==
    { "Failed to ", "fetch", "NetworkError", "CORS", "timeout", "422",
      "Unprocessable", "500", "API key", "Resume", "Cover", " letter",
      "Subject", "Email", " went wrong" }

\* the messages of at most MaxFragments fragments
ErrorTexts == UNION { [1..n -> Fragments] : n \in 0..MaxFragments }

\* An error with any such message is about to be caught.
ClassifierInit ==
    /\ ApplyInit
    /\ toEmails = EmailsChars
    /\ to_emails = None
    /\ SearchInit
    /\ error \in {Some(t) : t \in ErrorTexts}
    /\ classified = [banner |-> None, alert |-> None]

\* handleFormSubmit's catch block: showError(getErrorMessage(error))
ClassifySearchError ==
    /\ error # None /\ classified.banner = None
    /\ classified' = [classified EXCEPT !.banner = Some(getErrorMessage(error[1]))]
    /\ UNCHANGED <<error, applyVars, recipientVars, searchVars>>

\* sendJobApplication's catch block: alert(errorMessage)
ClassifyAttemptError ==
    /\ error # None /\ classified.alert = None
    /\ classified' = [classified EXCEPT !.alert = Some(CatchMessage(variant, error[1]))]
    /\ UNCHANGED <<error, applyVars, recipientVars, searchVars>>

ClassifierNext == ClassifySearchError \/ ClassifyAttemptError

ClassifierSpec == ClassifierInit /\ [][ClassifierNext]_vars

-----------------------------------------------------------------------------
(* The search form alone *)

\* The user only searches: no attempt is started on the rows.
SearchSpec == Init /\ [][SearchNext]_vars

-----------------------------------------------------------------------------
(* The search form, with what the latest search's answer left on the page *)

\* latest is emptied by the submission of a new search and records the table
\* body and the banner as the handling of that search's answer leaves them.
\* A submission refused by validation is no search: the banner it shows
\* replaces the recorded one.
TrackLatest ==
    latest' = IF Len(searches') > Len(searches) THEN None
              ELSE IF searches'[Len(searches)] # searches[Len(searches)]
              THEN Some([body |-> jobsTableBody', error |-> errorElement'])
              ELSE IF searches' = searches /\ latest # None
              THEN Some([latest[1] EXCEPT !.error = errorElement'])
              ELSE latest

RaceNext ==
    \/ /\ \E form \in FormInputs : handleFormSubmit(form)
       /\ TrackLatest
    \/ /\ \E i \in 1..Len(searches) :
            /\ searches[i].pc = "await_search"
            /\ \E resp \in SearchResponses : SearchResponse(i, resp)
       /\ TrackLatest

RaceSpec == Init /\ [][RaceNext]_vars

-----------------------------------------------------------------------------
(* The page: attempts on the rendered rows, or the search form *)

\* no attempt has been started on a row of the table
NoAttempt == \A r \in Rows : pc[r] = "idle"

\* the form has not been submitted since the table was rendered
NoNewSearch == Len(searches) = 1 /\ errorElement.display = "none"

\* The two flows share no state (the handlers of one neither read nor write
\* what the other uses), and a new search replaces the rows the attempts
\* belong to: the user either applies on the rows of the rendered table or
\* goes on searching.
PageNext ==
    \/ NoNewSearch /\ Next
    \/ NoAttempt /\ SearchNext

PageSpec == Init /\ [][PageNext]_vars

-----------------------------------------------------------------------------
(* Reading an attempt's trace *)

Only(seq, ev) == SelectSeq(seq, LAMBDA e : e.ev = ev)

\* the endpoints the attempt has called, in order
Calls(r) == [i \in 1..Len(Only(trace[r], "call")) |-> Only(trace[r], "call")[i].what]

\* the alerts the attempt has shown, in order
Alerts(r) == Only(trace[r], "alert")

Positions(r, ev) == {i \in 1..Len(trace[r]) : trace[r][i].ev = ev}

Done(r) == pc[r] = "done"

\* the catch block ran / the success branch ran and the catch block did not
Failed(r) == Positions(r, "console.error") # {}
Succeeded(r) ==
    /\ \E i \in Positions(r, "alert") : trace[r][i].what = "success"
    /\ ~Failed(r)

\* the step order of the deployed variant
StepOrder(v) ==
    IF v = "A" THEN <<GetResume, GetCover, GenerateSubject, SendEmail>>
    ELSE <<GenerateCover, SendEmail>>

\* the stage a user-facing message names
ReportedStage(alert) ==
    IF alert.what \in {"success", "dispatch"} THEN "Dispatch"
    ELSE IF alert.text = FailurePrefix \o CouldNotFetchResume THEN "DocumentFetch"
    ELSE IF alert.text = FailurePrefix \o CouldNotFetchCover THEN "DocumentFetch"
    ELSE IF alert.text = FailurePrefix \o CouldNotGenerateSubject THEN "ContentGeneration"
    ELSE IF alert.text = FailurePrefix \o CouldNotGenerateCover THEN "ContentGeneration"
    ELSE IF alert.text = FailurePrefix \o CouldNotSendEmail THEN "Dispatch"
    ELSE IF alert.text = FailurePrefix \o NetworkErrorText THEN "Network"
    ELSE "Unclassified"

\* the parsed payload of the attempt's send_email response, optional
EmailData(r) ==
    IF emailResult[r] = None THEN None
    ELSE IF emailResult[r][1].net = "reject" THEN None
    ELSE emailResult[r][1].json

EmailOk(r) == emailResult[r] # None /\ emailResult[r][1].ok

-----------------------------------------------------------------------------
(* Claims *)

\* C1: for every attempt started with a trigger control, on every path, the
\* control is disabled before the first network call is issued (the trace
\* opens with the disabling and the control stays disabled while the attempt
\* is suspended) and it is re-enabled exactly once: not before the attempt
\* ends, and as the attempt's last act, after which the trace does not grow.
C1_DisabledThenEnabledOnce ==
    \A r \in Rows :
        trace[r] # <<>> =>
            /\ trace[r][1].ev = "disable"
            /\ \A i \in Positions(r, "call") : i > 1
            /\ ~Done(r) => /\ button[r].disabled
                           /\ Positions(r, "enable") = {}
            /\ Done(r) => /\ ~button[r].disabled
                          /\ Positions(r, "enable") = {Len(trace[r])}

\* C1 witnesses: an attempt that ended by a thrown error and was re-enabled.
C1_Witness ==
    \E r \in Rows : Done(r) /\ Failed(r) /\ ~button[r].disabled
                    /\ Positions(r, "enable") = {Len(trace[r])}

\* C2: on every path, when the attempt ends the control's label equals the
\* label it had immediately before the attempt started.
C2_LabelRestored ==
    \A r \in Rows :
        Done(r) => button[r].textContent = trace[r][1].text[1]

C2_Witness ==
    \E r, q \in Rows :
        /\ Done(r) /\ Failed(r) /\ button[r].textContent = SendLabel
        /\ Done(q) /\ Succeeded(q) /\ button[q].textContent = SendLabel

\* C3: in both variants, once a step of an attempt fails (its call is
\* rejected, its response is non-OK or unparsable, or the handler throws),
\* no later call is issued in that attempt; send_email is called only after
\* every preceding step of the variant was called, in order, and answered OK.
C3_NoCallAfterFailure ==
    \A r \in Rows :
        \A i \in Positions(r, "call") :
            LET before == SubSeq(trace[r], 1, i - 1)
                called == Only(before, "call")
                answered == Only(before, "response")
                preceding == SubSeq(StepOrder(variant), 1, Len(StepOrder(variant)) - 1)
            IN  /\ \A j \in 1..Len(answered) : answered[j].text = <<"OK">>
                /\ Only(before, "console.error") = <<>>
                /\ trace[r][i].what = SendEmail =>
                     /\ [k \in 1..Len(called) |-> called[k].what] = preceding
                     /\ [k \in 1..Len(answered) |-> answered[k].what] = preceding

\* C3 witnesses: an attempt whose second step failed and that stopped there;
\* an attempt that reached send_email.
C3_Witness ==
    \E r, q \in Rows :
        /\ variant = "A" /\ Done(r) /\ Failed(r) /\ Calls(r) = <<GetResume, GetCover>>
        /\ SendEmail \in {Calls(q)[n] : n \in 1..Len(Calls(q))}

\* C4: in Variant A, when the resume fetch returns a non-OK status, the
\* attempt ends having called nothing but the resume fetch, and the one
\* message shown is the resume-fetch message (document-fetch stage).
C4_ResumeFetchFailure ==
    \A r \in Rows :
        ( /\ variant = "A"
          /\ \E i \in Positions(r, "response") :
                trace[r][i].what = GetResume /\ trace[r][i].text = <<"non-OK">> )
        =>  /\ Done(r)
            /\ Calls(r) = <<GetResume>>
            /\ Len(Alerts(r)) = 1
            /\ Alerts(r)[1].text = FailurePrefix \o CouldNotFetchResume
            /\ ReportedStage(Alerts(r)[1]) = "DocumentFetch"

C4_Witness ==
    \E r \in Rows :
        /\ variant = "A" /\ Done(r)
        /\ \E i \in Positions(r, "response") :
              trace[r][i].what = GetResume /\ trace[r][i].text = <<"non-OK">>

\* C5: an attempt ends in Success if and only if send_email answered with
\* an OK status and a payload whose success flag is true; every other ended
\* attempt (flag false or missing, non-OK status, no usable response, or an
\* earlier failure) ends in Failure.
C5_SuccessIffOkAndFlag ==
    \A r \in Rows :
        Done(r) =>
            /\ Succeeded(r) <=> ( /\ EmailOk(r)
                                  /\ EmailData(r) # None
                                  /\ EmailData(r)[1].success = "true" )
            /\ Failed(r) <=> ~Succeeded(r)

\* C5 witnesses: a success; a failure with OK status and the flag missing;
\* a failure with the flag true and a non-OK status.
C5_Witness ==
    \E r, q \in Rows :
        /\ Done(r) /\ Failed(r) /\ EmailData(r) # None
        /\ ( \/ EmailOk(r) /\ EmailData(r)[1].success = "missing"
             \/ ~EmailOk(r) /\ EmailData(r)[1].success = "true" )
        /\ Done(q) /\ Succeeded(q)

\* send_email settled (rejected or answered) and the attempt ended in Failure
DispatchFailed(r) == Done(r) /\ emailResult[r] # None /\ Failed(r)

\* C6: every failure at the dispatch step (rejected call, non-OK status,
\* success flag false or missing) is reported to the user as a Dispatch-stage
\* failure, whatever the server-provided detail or message says: no message
\* the attempt shows names another stage.
C6_DispatchFailureReportedAsDispatch ==
    \A r \in Rows :
        DispatchFailed(r) =>
            \A k \in 1..Len(Alerts(r)) : ReportedStage(Alerts(r)[k]) = "Dispatch"

\* send_email answered success=false with a detail holding the
\* authentication-failure indicator
AuthFailureAnswered(r) ==
    /\ Done(r)
    /\ EmailData(r) # None
    /\ EmailData(r)[1].success = "false"
    /\ EmailData(r)[1].detail # None
    /\ Includes(EmailData(r)[1].detail[1], <<"authentication failed">>)

\* C7: when send_email answers success=false with a detail holding
\* "authentication failed", the attempt ends in Failure at the dispatch step,
\* and the dispatch message shown carries the detail and remediation guidance
\* that the generic dispatch-failure message for the same detail lacks.
C7_AuthFailureRemediation ==
    \A r \in Rows :
        AuthFailureAnswered(r) =>
            LET detail == EmailData(r)[1].detail[1]
                shown == Alerts(r)[1]
            IN  /\ Failed(r)
                /\ Calls(r)[Len(Calls(r))] = SendEmail
                /\ shown.what = "dispatch"
                /\ Includes(shown.text, detail)
                /\ Includes(shown.text, Remediation(variant))
                /\ ~Includes(GenericAlert(detail), Remediation(variant))
                /\ shown.text # GenericAlert(detail)

C7_Witness == \E r \in Rows : AuthFailureAnswered(r) /\ ~EmailOk(r)

\* C8: each attempt shows exactly one user-facing message for its outcome,
\* on the success path and on every failure path.
C8_ExactlyOneMessage ==
    \A r \in Rows : Done(r) => Len(Alerts(r)) = 1

\* send_email answered with an OK status and a payload whose success flag
\* is true
DispatchSucceeded(r) ==
    /\ Done(r)
    /\ EmailOk(r)
    /\ EmailData(r) # None
    /\ EmailData(r)[1].success = "true"

\* the wording of a success message
Wording(alert) ==
    IF Includes(alert.text, <<"Application ", "sent", " successfully">>) THEN "sent"
    ELSE IF Includes(alert.text, <<"Application ", "prepared", " successfully">>) THEN "prepared"
    ELSE "none"

\* C9: in Variant A, when both document fetches and subject generation
\* succeed and send_email answers OK with success true and demo_mode false,
\* the attempt ends in Success, its one message is the success message
\* worded "sent", and no failure message is shown or logged.
C9_VariantASent ==
    \A r \in Rows :
        ( variant = "A" /\ DispatchSucceeded(r) /\ EmailData(r)[1].demo_mode = "false" )
        =>  /\ Succeeded(r)
            /\ Calls(r) = StepOrder("A")
            /\ Len(Alerts(r)) = 1
            /\ Alerts(r)[1].what = "success"
            /\ Wording(Alerts(r)[1]) = "sent"
            /\ ~Includes(Alerts(r)[1].text, DemoNote)

C9_Witness ==
    \E r \in Rows :
        variant = "A" /\ DispatchSucceeded(r) /\ EmailData(r)[1].demo_mode = "false"

\* C10: two attempts whose successful send_email responses differ only in
\* the demo_mode flag both end in Success, did the same things in the same
\* order (same calls, same answers, one success message) and leave their
\* controls in the same state; only the wording of the message differs,
\* "prepared" when demo_mode is true and "sent" otherwise.
C10_DemoModeOnlyWording ==
    \A r, q \in Rows :
        ( /\ DispatchSucceeded(r) /\ DispatchSucceeded(q)
          /\ [EmailData(r)[1] EXCEPT !.demo_mode = "any"]
               = [EmailData(q)[1] EXCEPT !.demo_mode = "any"] )
        =>  /\ Succeeded(r) /\ Succeeded(q)
            /\ Calls(r) = Calls(q)
            /\ button[r] = button[q]
            /\ Len(trace[r]) = Len(trace[q])
            /\ \A i \in 1..Len(trace[r]) :
                 /\ trace[r][i].ev = trace[q][i].ev
                 /\ trace[r][i].what = trace[q][i].what
            /\ Len(Alerts(r)) = 1
            /\ Wording(Alerts(r)[1]) =
                 (IF EmailData(r)[1].demo_mode = "true" THEN "prepared" ELSE "sent")

C10_Witness ==
    \E r, q \in Rows :
        /\ DispatchSucceeded(r) /\ DispatchSucceeded(q)
        /\ EmailData(r)[1].demo_mode = "true"
        /\ EmailData(q)[1].demo_mode = "false"
        /\ Wording(Alerts(r)[1]) = "prepared"
        /\ Wording(Alerts(q)[1]) = "sent"

\* the calls and responses of the attempt, in order
Traffic(r) == SelectSeq(trace[r], LAMBDA e : e.ev \in {"call", "response"})

Awaiting(r) == pc[r] \notin {"idle", "done"}

\* C11: within one attempt at most one network call is in flight at any
\* time (calls and their responses alternate, and a call is unanswered
\* exactly while the attempt is suspended), the calls follow the variant's
\* step order, and each call but the first is issued only after the previous
\* step's response was received and accepted (OK).
C11_OneCallInFlight ==
    \A r \in Rows :
        LET t == Traffic(r) IN
        /\ \A k \in 1..Len(t) :
             /\ t[k].ev = (IF k % 2 = 1 THEN "call" ELSE "response")
             /\ k % 2 = 0 => t[k].what = t[k - 1].what
             /\ (k % 2 = 1 /\ k > 1) => t[k - 1].text = <<"OK">>
        /\ Awaiting(r) <=> Len(t) % 2 = 1
        /\ Len(Calls(r)) <= Len(StepOrder(variant))
        /\ Calls(r) = SubSeq(StepOrder(variant), 1, Len(Calls(r)))

\* C11 witnesses: a Variant A attempt with all four calls issued, the last
\* one in flight; a Variant B attempt with both calls answered.
C11_Witness ==
    \E r \in Rows :
        \/ variant = "A" /\ Calls(r) = StepOrder("A") /\ Awaiting(r)
        \/ variant = "B" /\ Calls(r) = StepOrder("B") /\ Done(r)

\* C12: for each control, at most one attempt is in Sending at any time,
\* under every interleaving of clicks and responses (a click starts an
\* attempt only on an enabled control).
C12_OneAttemptPerControl == \A r \in Rows : sending[r] <= 1

\* C12 witness: the attempts of two rows are in flight at once, each on its
\* own disabled control.
C12_Witness ==
    \E r, q \in Rows :
        /\ r # q
        /\ sending[r] = 1 /\ sending[q] = 1
        /\ button[r].disabled /\ button[q].disabled

\* everything the page holds for one row and its attempt
RowState(r) ==
    << button[r], pc[r], originalButtonText[r], coverText[r], emailSubject[r],
       coverLetter[r], emailResult[r], sending[r], exchange[r], trace[r] >>

\* C13: attempts of different rows are independent: every step (a click or
\* a response handled) belongs to one row's attempt and changes that row's
\* control only; the control, the attempt state and the recorded outcome of
\* every other row are left as they were, so a row's outcome is made by the
\* responses to its own calls alone.
C13_RowsIndependent ==
    [][\E r \in Rows :
          /\ trace'[r] # trace[r]
          /\ \A q \in Rows \ {r} : RowState(q)' = RowState(q)]_vars

\* C13 witness: the attempts of two rows have both ended, one in success and
\* one in failure, and both controls are back as they were.
C13_Witness ==
    \E r, q \in Rows :
        /\ r # q
        /\ Succeeded(r) /\ Failed(q)
        /\ button[r] = button[q]

\* the row is Idle: no handler run of the row is pending and its control is
\* enabled (otherwise it is in Sending)
RowIdle(r) == sending[r] = 0 /\ ~Awaiting(r) /\ ~button[r].disabled

\* C14: if every issued call eventually responds or fails, every attempt
\* eventually leaves Sending and its row returns to Idle (control enabled);
\* that is, from every point on each row is Idle again at some later point
\* (~RowIdle leads to RowIdle).
C14_AttemptTerminates == \A r \in Rows : []<>RowIdle(r)

\* C14 witness: an attempt that got as far as the last call has ended and
\* its control is enabled.
C14_Witness ==
    \E r \in Rows :
        /\ Done(r) /\ ~button[r].disabled /\ sending[r] = 0
        /\ SendEmail \in {Calls(r)[i] : i \in 1..Len(Calls(r))}

\* the attempt has ended and did not show the success message
EndedInFailure(r) ==
    /\ Done(r)
    /\ \A i \in Positions(r, "alert") : trace[r][i].what # "success"

\* the stage a step belongs to
StageOf(call) ==
    IF call \in {GetResume, GetCover} THEN "DocumentFetch"
    ELSE IF call \in {GenerateSubject, GenerateCover} THEN "ContentGeneration"
    ELSE "Dispatch"

\* C16: every attempt that ends in Failure, whatever the stage and the cause,
\* has written the error to the diagnostic log and then shown a blocking
\* acknowledgment made from that error, both before the finally block ends
\* the attempt: after a non-OK response of a fetch or generation step the
\* acknowledgment names that step's stage, after a rejected call it is the
\* network message or carries the rejection's text, after an answered
\* send_email an acknowledgment carrying the server's detail was shown, and
\* after an exception it carries the exception's message.
C16_FailureLoggedAndShown ==
    \A r \in Rows :
        EndedInFailure(r) =>
            \E i, j \in 1..Len(trace[r]) :
                LET logged == trace[r][i]
                    shown == trace[r][j]
                    t == Traffic(r)
                    last == t[Len(t)]
                IN  /\ i < j /\ j < Len(trace[r])
                    /\ trace[r][Len(trace[r])].ev = "enable"
                    /\ logged.ev = "console.error" /\ logged.text # <<>>
                    /\ shown.ev = "alert" /\ shown.what = "catch"
                    /\ shown.text = CatchMessage(variant, logged.text)
                    /\ SubSeq(shown.text, 1, Len(FailurePrefix)) = FailurePrefix
                    /\ last.ev = "response"
                    /\ (last.text = <<"non-OK">> /\ last.what # SendEmail)
                         => ReportedStage(shown) = StageOf(last.what)
                    /\ last.text = <<"rejected">>
                         => \/ ReportedStage(shown) = "Network"
                            \/ shown.text = FailurePrefix \o logged.text
                    /\ (last.what = SendEmail /\ EmailData(r) # None)
                         => \E k \in 1..(i - 1) :
                               /\ trace[r][k].ev = "alert"
                               /\ trace[r][k].what = "dispatch"
                               /\ Includes(trace[r][k].text, ErrorDetail(EmailData(r)[1]))
                    /\ (last.text \in {<<"OK">>, <<"OK-unparsable">>}
                        /\ last.what # SendEmail)
                         => shown.text = FailurePrefix \o logged.text

\* C16 witnesses: failures by each cause have ended: a non-OK response, a
\* rejected call and a thrown exception (on different rows or attempts).
C16_Witness ==
    \E r, q \in Rows :
        /\ r # q
        /\ EndedInFailure(r) /\ EndedInFailure(q)
        /\ Traffic(r)[Len(Traffic(r))].text = <<"non-OK">>
        /\ Traffic(q)[Len(Traffic(q))].text \in {<<"rejected">>, <<"OK-unparsable">>}

\* the positions of the commas of a string, and the ends of its pieces
Commas(cs) == {k \in 1..Len(cs) : cs[k] = ","}
PieceStart(cs, i) ==
    IF i = 1 THEN 1
    ELSE 1 + CHOOSE k \in Commas(cs) : Cardinality({c \in Commas(cs) : c < k}) = i - 2
PieceEnd(cs, i) ==
    IF i = Cardinality(Commas(cs)) + 1 THEN Len(cs)
    ELSE (CHOOSE k \in Commas(cs) : Cardinality({c \in Commas(cs) : c < k}) = i - 1) - 1

\* the i-th piece without its surrounding white space
PieceCore(cs, i) ==
    LET inked == {k \in PieceStart(cs, i)..PieceEnd(cs, i) : cs[k] \notin Whitespace} IN
    IF inked = {} THEN <<>>
    ELSE SubSeq(cs, CHOOSE k \in inked : \A j \in inked : k <= j,
                    CHOOSE k \in inked : \A j \in inked : k >= j)

\* C19: the recipient list sent to send_email is the emails string split at
\* every comma, one element per piece (commas + 1 elements, empty pieces
\* kept), in the original order, each piece without its surrounding white
\* space and otherwise as written; "a@x.com, b@y.com" gives exactly
\* <<"a@x.com", "b@y.com">>.
C19_RecipientsSplitAndTrimmed ==
    to_emails # None =>
        LET list == to_emails[1] IN
        /\ Len(list) = Cardinality(Commas(toEmails)) + 1
        /\ \A i \in 1..Len(list) : list[i] = PieceCore(toEmails, i)
        /\ toEmails = EmailsChars =>
             [i \in 1..Len(list) |-> Flat(list[i])] = <<"a@x.com", "b@y.com">>

\* C19 witnesses: the list of the example string has been built; so has the
\* list of a string with an empty piece and a piece in white space.
C19_Witness ==
    /\ to_emails # None
    /\ \/ toEmails = EmailsChars
       \/ toEmails = <<",", " ", "a", "\t">> /\ to_emails[1] = << <<>>, <<"a">> >>

\* the records of one kind and call in the exchange of the row's attempt
Exchanged(r, kind, call) ==
    SelectSeq(exchange[r], LAMBDA x : x.kind = kind /\ x.call = call)

\* the attempt under way has issued its send_email request
EmailRequested(r) == Exchanged(r, "request", SendEmail) # <<>>

\* C17: in Variant A, whenever send_email is called, its body is the text
\* the cover-template fetch of the same attempt returned and its subject is
\* the subject the subject-generation call of the same attempt returned, and
\* that call was requested with that cover text, the job title and the
\* company of the attempt's listing.
C17_VariantAEmailContent ==
    \A r \in Rows :
        (variant = "A" /\ EmailRequested(r)) =>
            LET sent == Exchanged(r, "request", SendEmail)
                cover == Exchanged(r, "returned", GetCover)
                asked == Exchanged(r, "request", GenerateSubject)
                subject == Exchanged(r, "returned", GenerateSubject)
            IN  /\ Len(sent) = 1 /\ Len(cover) = 1 /\ Len(asked) = 1 /\ Len(subject) = 1
                /\ exchange[r][Len(exchange[r])] = sent[1]
                /\ sent[1].fields.body = cover[1].value
                /\ sent[1].fields.subject = subject[1].value
                /\ asked[1].fields.cover_letter_content = cover[1].value
                /\ asked[1].fields.job_title = Some(Jobs[r].title)
                /\ asked[1].fields.company = Some(Jobs[r].company)

\* C17 witness: a Variant A attempt has called send_email with the returned
\* cover text as body and the returned subject, which differs from it, while
\* another row's attempt, of another listing, is under way.
C17_Witness ==
    \E r, q \in Rows :
        /\ variant = "A" /\ pc[r] = "await_send_email" /\ EmailRequested(r)
        /\ Exchanged(r, "request", SendEmail)[1].fields.body = Some(CoverTemplateText)
        /\ Exchanged(r, "request", SendEmail)[1].fields.subject
              = Some(GeneratedSubject(Jobs[r]))
        /\ q # r /\ Awaiting(q) /\ Jobs[q] # Jobs[r]

\* C18: in Variant B, whenever send_email is called, its subject is exactly
\* "Job Application: {jobTitle} at {company}" with the job title and company
\* of the attempt's own listing, and its body is the cover letter the
\* cover-letter generation call of the same attempt returned.
C18_VariantBEmailContent ==
    \A r \in Rows :
        (variant = "B" /\ EmailRequested(r)) =>
            LET sent == Exchanged(r, "request", SendEmail)
                letter == Exchanged(r, "returned", GenerateCover)
            IN  /\ Len(sent) = 1 /\ Len(letter) = 1
                /\ exchange[r][Len(exchange[r])] = sent[1]
                /\ sent[1].fields.subject # None
                /\ Flat(sent[1].fields.subject[1])
                     = "Job Application: " \o Flat(Jobs[r].title)
                         \o " at " \o Flat(Jobs[r].company)
                /\ sent[1].fields.body = letter[1].value

\* C18 witness: Variant B attempts of two different listings have both
\* called send_email, each with the letter generated for its listing.
C18_Witness ==
    \E r, q \in Rows :
        /\ variant = "B" /\ r # q /\ Jobs[q] # Jobs[r]
        /\ pc[r] = "await_send_email" /\ pc[q] = "await_send_email"
        /\ Exchanged(r, "request", SendEmail)[1].fields.body
              = Some(GeneratedCoverLetter(Jobs[r]))
        /\ Exchanged(q, "request", SendEmail)[1].fields.body
              = Some(GeneratedCoverLetter(Jobs[q]))

\* the rows of one kind in the results table, in order
TableRows(kind) == SelectSeq(jobsTableBody, LAMBDA row : row.kind = kind)

\* C20: after displayJobResults, whatever the table held before, a listing
\* sequence of length 0, or an absent one, leaves exactly one placeholder row
\* and no listing row, and a sequence of length N > 0 leaves exactly N
\* listing rows, those of the sequence in its order, and no placeholder row.
C20_TableAfterDisplay ==
    (displayed # None /\ displayed[1].jobs.kind \in {"array", "null"}) =>
        LET jobs == displayed[1].jobs IN
        IF jobs.kind = "null" \/ Len(jobs.list) = 0
        THEN /\ Len(TableRows("placeholder")) = 1
             /\ Len(TableRows("listing")) = 0
             /\ Len(jobsTableBody) = 1
        ELSE /\ Len(TableRows("placeholder")) = 0
             /\ Len(TableRows("listing")) = Len(jobs.list)
             /\ Len(jobsTableBody) = Len(jobs.list)
             /\ \A i \in 1..Len(jobs.list) : jobsTableBody[i].job = jobs.list[i]

\* C20 witness: a table that held the placeholder row (left by one search's
\* answer) has been rendered again, by another search's answer, with two
\* listings in the order given.
C20_Witness ==
    /\ displayed # None
    /\ displayed[1].found = showNoResults
    /\ displayed[1].jobs = JobsArray(<<2, 1>>)
    /\ Len(jobsTableBody) = 2

\* C20 witness for the empty case: an empty sequence rendered over listing rows
C20_WitnessEmpty ==
    /\ displayed # None
    /\ Len(displayed[1].found) > 1
    /\ displayed[1].jobs \in {JobsArray(<<>>), JsonNull}
    /\ jobsTableBody = showNoResults

\* C15: no step is retried: within one application attempt each backend
\* request (each document fetch, subject generation, cover-letter
\* generation, send_email) is issued at most once, also when the attempt has
\* failed; and one search submission issues the search request at most once.
C15_NoRetry ==
    /\ \A r \in Rows :
         \A i, j \in 1..Len(Calls(r)) : Calls(r)[i] = Calls(r)[j] => i = j
    /\ \A r \in Rows :
         \A call \in {GetCover, GenerateSubject, GenerateCover, SendEmail} :
             Len(Exchanged(r, "request", call)) <= 1
    /\ \A i \in 1..Len(searches) : searches[i].fetches <= 1

\* C15 witness: two searches submitted after the first have both failed,
\* each with its request issued once.
C15_Witness ==
    /\ Len(searches) = 3
    /\ \A i \in 2..3 : searches[i].pc = "done" /\ searches[i].fetches = 1
    /\ errorElement.display = "block"
    /\ displayed = None

\* C15 witness on the attempts' side: an attempt has failed at its second
\* call, with both calls issued once.
C15_WitnessAttempt ==
    \E r \in Rows : Failed(r) /\ Done(r) /\ Len(Calls(r)) = 2

\* C21: whenever the search request is answered with HTTP status 422, the
\* message the search flow shows is the required-field validation message,
\* whatever the body of the response (with a detail field or without one,
\* JSON or not).
C21_Status422ShowsValidationMessage ==
    [][ \A i \in 1..Len(searches) : \A resp \in SearchResponses :
          (resp.net = "response" /\ resp.line.status = "422" /\ SearchResponse(i, resp))
              => errorElement' = showError(CheckInputMessage) ]_vars

\* the detail the body of a non-OK response of a fetch or generation step
\* carries, if any
StepDetail(resp) ==
    IF resp.net = "response" /\ ~resp.ok THEN ErrorBodyDetail(resp.line) ELSE None

\* the attempt of row r has raised one error, whose message contains text
Raised(r, text) ==
    LET logged == Only(trace[r], "console.error") IN
    Len(logged) = 1 /\ Includes(logged[1].text, text)

\* C22: for every backend call (document fetch, subject generation,
\* cover-letter generation, send_email, search), when the call is answered
\* with a non-OK status and an error body that carries a detail, the error
\* the step raises carries that detail; the status text is in the error only
\* when the body carries no detail.
C22_RaisedErrorCarriesDetail ==
    [][ /\ \A r \in Rows :
            /\ \A resp \in StepResponses(ResumeText) :
                  (StepDetail(resp) # None /\ ResumeResponse(r, resp))
                      => /\ Raised(r, StepDetail(resp)[1])'
                         /\ ~Raised(r, resp.line.statusText)'
            /\ \A resp \in StepResponses(CoverTemplateText) :
                  (StepDetail(resp) # None /\ CoverResponse(r, resp))
                      => /\ Raised(r, StepDetail(resp)[1])'
                         /\ ~Raised(r, resp.line.statusText)'
            /\ \A resp \in StepResponses(GeneratedSubject(Jobs[r])) :
                  (StepDetail(resp) # None /\ SubjectResponse(r, resp))
                      => /\ Raised(r, StepDetail(resp)[1])'
                         /\ ~Raised(r, resp.line.statusText)'
            /\ \A resp \in StepResponses(GeneratedCoverLetter(Jobs[r])) :
                  (StepDetail(resp) # None /\ GenerateCoverResponse(r, resp))
                      => /\ Raised(r, StepDetail(resp)[1])'
                         /\ ~Raised(r, resp.line.statusText)'
            /\ \A resp \in EmailResponses :
                  ( /\ resp.net = "response" /\ ~resp.ok /\ resp.json # None
                    /\ Truthy(resp.json[1].detail)
                    /\ SendEmailResponse(r, resp) )
                      => Raised(r, resp.json[1].detail[1])'
        /\ \A i \in 1..Len(searches) : \A resp \in SearchResponses :
              ( /\ resp.net = "response" /\ ~resp.ok /\ resp.json # None
                /\ resp.json[1].detail # None
                /\ SearchResponse(i, resp) )
                  => errorElement' = showError(getErrorMessage(resp.json[1].detail[1])) ]_vars

\* the attempt of row r has ended without calling send_email, as a failure
\* whose acknowledgment names the given stage
EndedBeforeDispatch(r, stage) ==
    /\ Done(r) /\ Failed(r)
    /\ \A i \in 1..Len(Calls(r)) : Calls(r)[i] # SendEmail
    /\ Len(Alerts(r)) = 1
    /\ ReportedStage(Alerts(r)[1]) = stage

\* C23: in Variant B, when generate_cover is answered with an OK status and
\* a payload without the cover_letter field, the step has failed: send_email
\* is not called and the attempt ends in a failure reported at the
\* content-generation stage.
C23_MissingCoverLetterFailsGeneration ==
    [][ \A r \in Rows : \A resp \in StepResponses(GeneratedCoverLetter(Jobs[r])) :
          ( /\ resp.net = "response" /\ resp.ok /\ resp.json = Some(None)
            /\ GenerateCoverResponse(r, resp) )
              => EndedBeforeDispatch(r, "ContentGeneration")' ]_vars

\* the rules of getErrorMessage, in the order they are tested: the texts
\* searched for and the message returned
SearchRules ==
    << [patterns |-> {<<"Failed to ", "fetch">>, <<"NetworkError">>, <<"CORS">>},
        result |-> CannotConnectMessage],
       [patterns |-> {<<"timeout">>}, result |-> TimedOutMessage],
       [patterns |-> {<<"422">>, <<"Unprocessable">>}, result |-> CheckInputMessage],
       [patterns |-> {<<"500">>, <<"API key">>}, result |-> ConfigurationMessage] >>

\* the rules of the attempt's catch block
AttemptRules(v) ==
    IF v = "A"
    THEN << [patterns |-> {<<"Resume">>}, result |-> CouldNotFetchResume],
            [patterns |-> {<<"Cover">>}, result |-> CouldNotFetchCover],
            [patterns |-> {<<"Subject">>}, result |-> CouldNotGenerateSubject],
            [patterns |-> {<<"Email">>}, result |-> CouldNotSendEmail],
            [patterns |-> {<<"fetch">>}, result |-> NetworkErrorText] >>
    ELSE << [patterns |-> {<<"Cover", " letter">>}, result |-> CouldNotGenerateCover],
            [patterns |-> {<<"Email">>}, result |-> CouldNotSendEmail],
            [patterns |-> {<<"fetch">>}, result |-> NetworkErrorText] >>

\* the rules a text matches
Matching(rules, text) ==
    {k \in 1..Len(rules) : \E p \in rules[k].patterns : Includes(text, p)}

\* the result of the earliest rule the text matches, or the text itself
FirstMatch(rules, text) ==
    IF Matching(rules, text) = {} THEN text
    ELSE rules[CHOOSE k \in Matching(rules, text) :
                   \A j \in Matching(rules, text) : k <= j].result

C24_WitnessSearch ==
    /\ error = Some(<<"500", "CORS">>)
    /\ Matching(SearchRules, error[1]) = {1, 4}
    /\ classified.banner = Some(CannotConnectMessage)

\* nothing but white space was typed
Blank(cs) == \A k \in 1..Len(cs) : cs[k] \in Whitespace

\* C25: when the form is submitted with a job title or a location that is
\* empty after trimming, handleFormSubmit shows the required-fields error,
\* issues no network call, and leaves the results table and the loading
\* indicator as they were.
C25_InvalidSubmitOnlyShowsError ==
    [][ \A form \in FormInputs :
          ((Blank(form.title) \/ Blank(form.location)) /\ handleFormSubmit(form))
              => /\ errorElement' = showError(RequiredFieldsMessage)
                 /\ searches' = searches
                 /\ jobsTableBody' = jobsTableBody
                 /\ loadingElement' = loadingElement ]_vars

\* C25 witness: the required-fields error is shown while an earlier search
\* is still in flight, with the loading indicator still visible and the
\* table still cleared by that search's submission.
C25_Witness ==
    /\ errorElement = showError(RequiredFieldsMessage)
    /\ loadingElement.display = "block"
    /\ jobsTableBody = <<>>
    /\ Len(searches) = 2 /\ searches[2].pc = "await_search"

\* C26: whenever send_email is called, its subject and its body are both
\* present values obtained from the preceding steps: an OK response of a
\* preceding step whose payload lacks its field (text, subject or
\* cover_letter) does not lead to a send_email request without a subject or
\* without a body.
C26_EmailHasSubjectAndBody ==
    \A r \in Rows :
        \A i \in 1..Len(Exchanged(r, "request", SendEmail)) :
            LET sent == Exchanged(r, "request", SendEmail)[i] IN
            /\ sent.fields.subject # None
            /\ sent.fields.body # None

\* a search request is in flight
SearchInFlight == \E i \in 1..Len(searches) : searches[i].pc = "await_search"

\* C27: the loading indicator is visible in every state in which at least
\* one search request is in flight and hidden in every state in which none
\* is, also when a second search is submitted before the first has been
\* answered.
C27_LoadingWhileSearching ==
    loadingElement.display = (IF SearchInFlight THEN "block" ELSE "none")

\* C28: when several searches are submitted before earlier ones are
\* answered, then once all of them have been answered the results table and
\* the error banner are those of the most recently submitted search (as the
\* handling of its answer left them), in whatever order the answers arrived.
C28_LatestSearchWins ==
    (~SearchInFlight /\ latest # None) =>
        /\ jobsTableBody = latest[1].body
        /\ errorElement = latest[1].error

=============================================================================
